---- MODULE Spec2Model ----
(***************************************************************************)
(* Model of src/src/data/parse_movie_script.py: the line-by-line parser    *)
(* MovieScriptParser._parse_text_script with its helpers, and the dataset  *)
(* export of ParsedObject.                                                 *)
(*                                                                         *)
(* A Python str is a sequence of one-character strings.  Optional[x] is a  *)
(* sequence of length 0 (None) or 1 (the value).  A StringIO is a record    *)
(* of its contents and its stream position.                                *)
(***************************************************************************)
EXTENDS Integers, Sequences, FiniteSets, TLC

VARIABLES
    parser_state,   \* the ParserState record of _parse_text_script
    pc,             \* "loop": in the for loop; "done": returned; "saved": exported
    consumed,       \* the raw lines the for loop has read so far
    result,         \* Optional ParsedObject returned by _parse_text_script
    file,           \* the records written by the dataset export
    key_error,      \* TRUE when the export's label lookup raised KeyError
    buffer,         \* a StringIO exercised directly through _concatenate_text
    appended        \* the lines appended to buffer so far

vars == <<parser_state, pc, consumed, result, file, key_error, buffer, appended>>

-----------------------------------------------------------------------------
(* Bounds *)

MaxLines == 4       \* number of lines of an input file
MaxScriptLines == 10 \* number of lines of a one-scene script
MaxAppends == 3     \* number of direct appends to one buffer

-----------------------------------------------------------------------------
(* Characters and Python's str methods *)

TAB == "\t"
NL == "\n"
SP == " "
HYPHEN == "-"

Whitespace == {TAB, NL, SP}
Digits == {"1", "2"}

\* code points, for the ordering sorted() uses
Ord(c) ==
    CASE c = TAB -> 9
      [] c = NL -> 10
      [] c = SP -> 32
      [] c = HYPHEN -> 45
      [] c = "1" -> 49
      [] c = "2" -> 50
      [] c = "A" -> 65
      [] c = "B" -> 66
      [] c = "E" -> 69
      [] c = "a" -> 97
      [] c = "b" -> 98
      [] c = "e" -> 101
      [] c = "l" -> 108
      [] c = "m" -> 109
      [] c = "p" -> 112
      [] c = "x" -> 120
      [] OTHER -> 0

\* str.lower() on one character
LowerChar(c) ==
    CASE c = "A" -> "a"
      [] c = "B" -> "b"
      [] c = "E" -> "e"
      [] OTHER -> c

\* str.lower()
lower(s) == [i \in 1..Len(s) |-> LowerChar(s[i])]

RECURSIVE lstrip_chars(_, _)
lstrip_chars(s, chars) ==
    IF s # <<>> /\ Head(s) \in chars THEN lstrip_chars(Tail(s), chars) ELSE s

RECURSIVE rstrip_chars(_, _)
rstrip_chars(s, chars) ==
    IF s # <<>> /\ s[Len(s)] \in chars
    THEN rstrip_chars(SubSeq(s, 1, Len(s) - 1), chars)
    ELSE s

\* line.strip("\n")
strip_newline(s) == rstrip_chars(lstrip_chars(s, {NL}), {NL})

\* str.strip() with no argument: strips whitespace at both ends
strip(s) == rstrip_chars(lstrip_chars(s, Whitespace), Whitespace)

\* len(s.split()): the number of maximal runs of non-whitespace characters
RECURSIVE word_count(_)
word_count(s) ==
    IF s = <<>> THEN 0
    ELSE IF Head(s) \in Whitespace THEN word_count(Tail(s))
    ELSE IF Len(s) = 1 \/ s[2] \in Whitespace THEN 1 + word_count(Tail(s))
    ELSE word_count(Tail(s))

\* position of the first tab of s at or after index i, or 0
RECURSIVE find_tab(_, _)
find_tab(s, i) ==
    IF i > Len(s) THEN 0
    ELSE IF s[i] = TAB THEN i
    ELSE find_tab(s, i + 1)

\* line.split("\t")[1] for a line that contains a tab
split_tab_1(line) ==
    LET t1 == find_tab(line, 1)
        t2 == find_tab(line, t1 + 1)
    IN  IF t2 = 0 THEN SubSeq(line, t1 + 1, Len(line))
        ELSE SubSeq(line, t1 + 1, t2 - 1)

\* Python truthiness of an Optional[str]: None and "" are falsy
Truthy(opt) == opt # <<>> /\ opt[1] # <<>>

None == <<>>
Some(x) == <<x>>

\* lexicographic order on str by code point
RECURSIVE str_less(_, _)
str_less(s, t) ==
    IF t = <<>> THEN FALSE
    ELSE IF s = <<>> THEN TRUE
    ELSE IF Ord(Head(s)) < Ord(Head(t)) THEN TRUE
    ELSE IF Ord(Head(s)) > Ord(Head(t)) THEN FALSE
    ELSE str_less(Tail(s), Tail(t))

\* sorted() in descending order
RECURSIVE sorted_reverse(_)
sorted_reverse(S) ==
    IF S = {} THEN <<>>
    ELSE LET m == CHOOSE x \in S : \A y \in S : y = x \/ str_less(y, x)
         IN  <<m>> \o sorted_reverse(S \ {m})

\* sorted(a set of str)
RECURSIVE sorted(_)
sorted(S) ==
    IF S = {} THEN <<>>
    ELSE LET m == CHOOSE x \in S : \A y \in S : y = x \/ str_less(x, y)
         IN  <<m>> \o sorted(S \ {m})

-----------------------------------------------------------------------------
(* io.StringIO *)

StringIO == [value |-> <<>>, pos |-> 0]

getvalue(b) == b.value
tell(b) == b.pos
seek(b, p) == [b EXCEPT !.pos = p]
\* buffer.seek(0, 2)
seek_end(b) == [b EXCEPT !.pos = Len(b.value)]
\* buffer.read(1): the characters read
read_1(b) ==
    IF b.pos < Len(b.value) THEN <<b.value[b.pos + 1]>> ELSE <<>>
\* the stream after buffer.read(1)
after_read_1(b) ==
    IF b.pos < Len(b.value) THEN [b EXCEPT !.pos = b.pos + 1] ELSE b
\* buffer.truncate(): cut at the current position
truncate(b) ==
    IF b.pos < Len(b.value)
    THEN [b EXCEPT !.value = SubSeq(b.value, 1, b.pos)]
    ELSE b
\* buffer.truncate(0)
truncate_0(b) == [b EXCEPT !.value = <<>>]
\* buffer.write(s): overwrite from the position, extending the contents
write(b, s) ==
    [value |-> SubSeq(b.value, 1, b.pos) \o s
                 \o SubSeq(b.value, b.pos + Len(s) + 1, Len(b.value)),
     pos |-> b.pos + Len(s)]

-----------------------------------------------------------------------------
(* Helpers of MovieScriptParser *)

_reset_buffer(scene_text) == truncate_0(seek(scene_text, 0))

\* the length of the leading run of digits of line
RECURSIVE digit_run(_)
digit_run(line) ==
    IF line # <<>> /\ Head(line) \in Digits THEN 1 + digit_run(Tail(line)) ELSE 0

\* re.match(r"^\d+\t.+$", line)
scene_match(line) ==
    LET k == digit_run(line)
        rest == SubSeq(line, k + 2, Len(line))
        body == IF rest # <<>> /\ rest[Len(rest)] = NL
                THEN SubSeq(rest, 1, Len(rest) - 1) ELSE rest
    IN  /\ k >= 1
        /\ Len(line) >= k + 1
        /\ line[k + 1] = TAB
        /\ body # <<>>
        /\ \A i \in 1..Len(body) : body[i] # NL

_get_scene_name(line) ==
    IF scene_match(line) THEN Some(split_tab_1(line)) ELSE None

RECURSIVE _count_leading_tabs(_)
_count_leading_tabs(input_string) ==
    IF input_string # <<>> /\ Head(input_string) = TAB
    THEN 1 + _count_leading_tabs(Tail(input_string))
    ELSE 0

_concatenate_text(buf, new_line) ==
    LET b1 == seek_end(buf)
        b2 == IF tell(b1) > 0
              THEN LET b3 == seek(b1, tell(b1) - 1)
                       ch == read_1(b3)
                       b4 == after_read_1(b3)
                   IN  IF ch = <<HYPHEN>>
                       THEN truncate(seek(b4, tell(b4) - 1))
                       ELSE b4
              ELSE b1
    IN  write(b2, lower(strip(new_line)) \o <<SP>>)

_add_entry(ps) ==
    LET scene_text_stirng == getvalue(ps.scene_text)
        dialogue_text_string == getvalue(ps.dialogue_text)
        entry == [description |-> scene_text_stirng,
                  dialogue |-> IF Truthy(ps.character_name)
                               THEN Some([character |-> ps.character_name[1],
                                          text |-> dialogue_text_string])
                               ELSE None]
        scene_word_count == word_count(scene_text_stirng)
        dialogue_word_count == word_count(dialogue_text_string)
        st == ps.stats
        st1 == IF Truthy(ps.character_name)
               THEN [st EXCEPT !.total_dialogues = @ + 1,
                               !.total_words_in_dialogues = @ + dialogue_word_count]
               ELSE st
    IN  [ps EXCEPT
            !.lists = [@ EXCEPT ![ps.entries] = Append(@, entry)],
            !.stats = [st1 EXCEPT !.total_words =
                                     @ + scene_word_count + dialogue_word_count],
            !.character_vocabulary =
                IF Truthy(ps.character_name)
                THEN @ \cup {ps.character_name[1]} ELSE @,
            !.character_name = None,
            !.dialogue_text = _reset_buffer(@),
            !.scene_text = _reset_buffer(@)]

\* _add_scene flushing an entry without testing the buffer or the character
_add_scene_always_flush(ps) ==
    LET p1 == _add_entry(ps)
    IN  [p1 EXCEPT !.scenes =
            Append(@, [name |-> p1.scene_name, entries |-> p1.entries])]

_add_scene(ps) ==
    LET p1 == IF tell(ps.scene_text) > 0 \/ Truthy(ps.character_name)
              THEN _add_entry(ps) ELSE ps
    IN  [p1 EXCEPT !.scenes =
            Append(@, [name |-> p1.scene_name, entries |-> p1.entries])]

-----------------------------------------------------------------------------
(* The input lines *)

Tabs(n) == [i \in 1..n |-> TAB]

LEmpty == <<NL>>
LHeadA == <<"1", TAB, "A", NL>>
LHeadTabs == <<"2", TAB, "B", TAB, "A", NL>>
LHeadNoName == <<"1", TAB, TAB, "A", NL>>
LCueA == Tabs(6) \o <<"A", NL>>
LCueB == Tabs(6) \o <<"B", SP, NL>>
LCueBlank == Tabs(6) \o <<NL>>
LDlg4 == Tabs(4) \o <<"A", "b", HYPHEN, NL>>
LDlg5 == Tabs(5) \o <<"b", SP, "a", NL>>
LDesc == <<TAB, "A", SP, "b", NL>>
LDescHyphen == <<"a", HYPHEN>>
LDescBlank == <<SP, NL>>

Lines == {LEmpty, LHeadA, LHeadTabs, LHeadNoName, LCueA, LCueB, LCueBlank,
          LDlg4, LDlg5, LDesc, LDescHyphen, LDescBlank}

-----------------------------------------------------------------------------
(* _parse_text_script *)

\* The ParserState built at the start of _parse_text_script.  A Python list
\* of Entry is an object: lists is the heap of those objects, and entries
\* and Scene.entries are references (indices) into it.
\* The title is kept as one symbol: scene names are only stored and compared.
InitialParserState ==
    [scene_text |-> StringIO,
     dialogue_text |-> StringIO,
     scene_name |-> <<"SCRIPT TITLE">>,
     character_name |-> None,
     stats |-> [total_dialogues |-> 0, total_words_in_dialogues |-> 0,
                total_words |-> 0, total_characters |-> 0, total_scenes |-> 0],
     character_vocabulary |-> {},
     scenes |-> <<>>,
     lists |-> << <<>> >>,
     entries |-> 1]

\* the branch of the loop body taken for a scene heading
new_scene(ps, new_scene_name) ==
    LET p1 == _add_scene(ps)
    IN  [p1 EXCEPT
            !.scene_name = new_scene_name,
            !.scene_text = _reset_buffer(@),
            !.dialogue_text = _reset_buffer(@),
            !.lists = Append(@, <<>>),
            !.entries = Len(p1.lists) + 1,
            !.character_name = None]

\* character_cue flushing an entry whether or not a character is active
character_cue_always_flush(ps, line) ==
    [_add_entry(ps) EXCEPT !.character_name = Some(strip(line))]

\* character_cue storing the cue in lower case
character_cue_lower(ps, line) ==
    LET p1 == IF Truthy(ps.character_name) THEN _add_entry(ps) ELSE ps
    IN  [p1 EXCEPT !.character_name = Some(lower(strip(line)))]

\* the branch taken for a line with 6 leading tabs
character_cue(ps, line) ==
    LET p1 == IF Truthy(ps.character_name) THEN _add_entry(ps) ELSE ps
    IN  [p1 EXCEPT !.character_name = Some(strip(line))]

\* the branch taken for a line of dialogue
dialogue_line(ps, line) ==
    [ps EXCEPT !.dialogue_text = _concatenate_text(@, line)]

\* the else branch: scene description
description_line(ps, line) ==
    LET p1 == IF Truthy(ps.character_name)
              THEN [_add_entry(ps) EXCEPT !.character_name = None]
              ELSE ps
    IN  [p1 EXCEPT !.scene_text = _concatenate_text(@, line)]

\* end_of_input with total_scenes counted before the last scene is added
end_of_input_stale_count(ps) ==
    LET p1 == IF tell(ps.scene_text) > 0 \/ Truthy(ps.character_name)
              THEN _add_scene(ps) ELSE ps
    IN  [p1 EXCEPT
            !.stats = [@ EXCEPT
                !.total_characters = Cardinality(p1.character_vocabulary),
                !.total_scenes = Len(ps.scenes)]]

\* the code after the loop
end_of_input(ps) ==
    LET p1 == IF tell(ps.scene_text) > 0 \/ Truthy(ps.character_name)
              THEN _add_scene(ps) ELSE ps
    IN  [p1 EXCEPT
            !.stats = [@ EXCEPT
                !.total_characters = Cardinality(p1.character_vocabulary),
                !.total_scenes = Len(p1.scenes)]]

ParsedObject(ps) ==
    [scenes |-> ps.scenes,
     character_vocabulary |-> sorted(ps.character_vocabulary),
     stats |-> ps.stats,
     lists |-> ps.lists]

\* classification of a raw line, in the order the loop body tests it
\* IsEmpty testing the line before its newline is stripped
IsEmpty_before_strip(raw) == raw = <<>>

IsEmpty(raw) == strip_newline(raw) = <<>>
IsHeading(raw) == ~IsEmpty(raw) /\ Truthy(_get_scene_name(strip_newline(raw)))
IsCue(raw) ==
    ~IsEmpty(raw) /\ ~IsHeading(raw) /\ _count_leading_tabs(strip_newline(raw)) = 6
\* IsDialogue testing the truthiness of character_name instead of "is not None"
IsDialogue_truthy(ps, raw) ==
    /\ ~IsEmpty(raw) /\ ~IsHeading(raw) /\ ~IsCue(raw)
    /\ _count_leading_tabs(strip_newline(raw)) \in {4, 5}
    /\ Truthy(ps.character_name)

IsDialogue(ps, raw) ==
    /\ ~IsEmpty(raw) /\ ~IsHeading(raw) /\ ~IsCue(raw)
    /\ _count_leading_tabs(strip_newline(raw)) \in {4, 5}
    /\ ps.character_name # None
IsDescription(ps, raw) ==
    ~IsEmpty(raw) /\ ~IsHeading(raw) /\ ~IsCue(raw) /\ ~IsDialogue(ps, raw)

\* one iteration of the for loop on the raw line
loop_body(ps, raw) ==
    LET line == strip_newline(raw)
    IN  IF IsEmpty(raw) THEN ps
        ELSE IF IsHeading(raw) THEN new_scene(ps, _get_scene_name(line)[1])
        ELSE IF IsCue(raw) THEN character_cue(ps, line)
        ELSE IF IsDialogue(ps, raw) THEN dialogue_line(ps, line)
        ELSE description_line(ps, line)

\* the for loop over the lines raws
RECURSIVE run_loop(_, _)
run_loop(ps, raws) ==
    IF raws = <<>> THEN ps
    ELSE run_loop(loop_body(ps, Head(raws)), Tail(raws))

\* _parse_text_script(file_like) as a function of its lines
_parse_text_script(file_like) ==
    ParsedObject(end_of_input(run_loop(InitialParserState, file_like)))

-----------------------------------------------------------------------------
(* The dataset export *)

\* get_vocabulary_to_label_mapping with enumerate starting at 1
get_vocabulary_to_label_mapping_from_1(obj) ==
    LET voc == obj.character_vocabulary
    IN  [v \in {voc[i] : i \in 1..Len(voc)} |->
            CHOOSE i \in 1..Len(voc) :
                voc[i] = v /\ \A j \in 1..Len(voc) : voc[j] = v => j <= i]

get_vocabulary_to_label_mapping(obj) ==
    LET voc == obj.character_vocabulary
    IN  [v \in {voc[i] : i \in 1..Len(voc)} |->
            (CHOOSE i \in 1..Len(voc) :
                voc[i] = v /\ \A j \in 1..Len(voc) : voc[j] = v => j <= i) - 1]

get_label_to_vocabulary_mapping(obj) ==
    LET voc == obj.character_vocabulary
    IN  [i \in 0..(Len(voc) - 1) |-> voc[i + 1]]

\* the entries of obj in the order of the two nested for loops
RECURSIVE all_entries(_, _)
all_entries(obj, i) ==
    IF i > Len(obj.scenes) THEN <<>>
    ELSE obj.lists[obj.scenes[i].entries] \o all_entries(obj, i + 1)

\* the writes of the export over the entries es; stops at a KeyError
RECURSIVE write_records(_, _, _)
write_records(es, mapping, written) ==
    IF es = <<>> THEN [file |-> written, key_error |-> FALSE]
    ELSE IF Head(es).dialogue = None THEN write_records(Tail(es), mapping, written)
    ELSE IF Head(es).dialogue[1].character \notin DOMAIN mapping
         THEN [file |-> written, key_error |-> TRUE]
    ELSE write_records(Tail(es), mapping,
            Append(written, [text |-> Head(es).dialogue[1].text,
                             label |-> mapping[Head(es).dialogue[1].character]]))

save_character_dialogue_dataset_in_json_format(obj) ==
    write_records(all_entries(obj, 1), get_vocabulary_to_label_mapping(obj), <<>>)

-----------------------------------------------------------------------------
(* The parser as a state machine *)

Init ==
    /\ parser_state = InitialParserState
    /\ pc = "loop"
    /\ consumed = <<>>
    /\ result = None
    /\ file = <<>>
    /\ key_error = FALSE
    /\ buffer = StringIO
    /\ appended = <<>>

Reading == pc = "loop" /\ Len(consumed) < MaxLines

SkipEmptyLine ==
    \E raw \in Lines :
        /\ Reading /\ IsEmpty(raw)
        /\ consumed' = Append(consumed, raw)
        /\ UNCHANGED <<parser_state, pc, result, file, key_error, buffer, appended>>

SceneHeading ==
    \E raw \in Lines :
        /\ Reading /\ IsHeading(raw)
        /\ parser_state' =
               new_scene(parser_state, _get_scene_name(strip_newline(raw))[1])
        /\ consumed' = Append(consumed, raw)
        /\ UNCHANGED <<pc, result, file, key_error, buffer, appended>>

CharacterCue ==
    \E raw \in Lines :
        /\ Reading /\ IsCue(raw)
        /\ parser_state' = character_cue(parser_state, strip_newline(raw))
        /\ consumed' = Append(consumed, raw)
        /\ UNCHANGED <<pc, result, file, key_error, buffer, appended>>

DialogueLine ==
    \E raw \in Lines :
        /\ Reading /\ IsDialogue(parser_state, raw)
        /\ parser_state' = dialogue_line(parser_state, strip_newline(raw))
        /\ consumed' = Append(consumed, raw)
        /\ UNCHANGED <<pc, result, file, key_error, buffer, appended>>

DescriptionLine ==
    \E raw \in Lines :
        /\ Reading /\ IsDescription(parser_state, raw)
        /\ parser_state' = description_line(parser_state, strip_newline(raw))
        /\ consumed' = Append(consumed, raw)
        /\ UNCHANGED <<pc, result, file, key_error, buffer, appended>>

EndOfInput ==
    /\ pc = "loop"
    /\ parser_state' = end_of_input(parser_state)
    /\ result' = Some(ParsedObject(parser_state'))
    /\ pc' = "done"
    /\ UNCHANGED <<consumed, file, key_error, buffer, appended>>

SaveDataset ==
    /\ pc = "done"
    /\ LET out == save_character_dialogue_dataset_in_json_format(result[1])
       IN  file' = out.file /\ key_error' = out.key_error
    /\ pc' = "saved"
    /\ UNCHANGED <<parser_state, consumed, result, buffer, appended>>

Next ==
    \/ SkipEmptyLine
    \/ SceneHeading
    \/ CharacterCue
    \/ DialogueLine
    \/ DescriptionLine
    \/ EndOfInput
    \/ SaveDataset

Spec == Init /\ [][Next]_vars

-----------------------------------------------------------------------------
(* _concatenate_text applied directly to one buffer *)

LExam == <<"e", "x", "a", "m", HYPHEN>>
LPle == <<"p", "l", "e">>
LHyphenOnly == <<HYPHEN>>
LWords == <<SP, "A", SP, "b", HYPHEN, NL>>
LBlank == <<SP>>
LTabbed == <<TAB, "B", "-", "a">>

ConcatLines == {LExam, LPle, LHyphenOnly, LWords, LBlank, LTabbed}

InitConcat ==
    /\ parser_state = InitialParserState
    /\ pc = "concat"
    /\ consumed = <<>>
    /\ result = None
    /\ file = <<>>
    /\ key_error = FALSE
    /\ buffer = StringIO
    /\ appended = <<>>

ConcatenateText ==
    \E new_line \in ConcatLines :
        /\ pc = "concat" /\ Len(appended) < MaxAppends
        /\ buffer' = _concatenate_text(buffer, new_line)
        /\ appended' = Append(appended, new_line)
        /\ UNCHANGED <<parser_state, pc, consumed, result, file, key_error>>

NextConcat == ConcatenateText

SpecConcat == InitConcat /\ [][NextConcat]_vars

-----------------------------------------------------------------------------
(* _parse_text_script on the lines of one scene: descriptions, cues of one
   character and dialogue lines, long enough for the scene of
   test_parse_text_script_mixed_text *)

ScriptLines == {LDesc, LCueA, LDlg4}

\* description, cue, dialogue three times, then a description: the shape of
\* scene 3 of test_parse_text_script_mixed_text
MixedTextScene ==
    <<LDesc, LCueA, LDlg4, LDesc, LCueA, LDlg4, LDesc, LCueA, LDlg4, LDesc>>

InitScript ==
    /\ parser_state = InitialParserState
    /\ pc = "script"
    /\ consumed = <<>>
    /\ result = None
    /\ file = <<>>
    /\ key_error = FALSE
    /\ buffer = StringIO
    /\ appended = <<>>

ScriptLine ==
    \E raw \in ScriptLines :
        /\ pc = "script" /\ Len(consumed) < MaxScriptLines
        /\ parser_state' = loop_body(parser_state, raw)
        /\ consumed' = Append(consumed, raw)
        /\ UNCHANGED <<pc, result, file, key_error, buffer, appended>>

ScriptEnd ==
    /\ pc = "script"
    /\ parser_state' = end_of_input(parser_state)
    /\ result' = Some(ParsedObject(parser_state'))
    /\ pc' = "done"
    /\ UNCHANGED <<consumed, file, key_error, buffer, appended>>

NextScript == ScriptLine \/ ScriptEnd

SpecScript == InitScript /\ [][NextScript]_vars

-----------------------------------------------------------------------------
(* Properties *)

\* the returned ParsedObject
Returned == result[1]
\* the entry list of a scene of the returned document
EntriesOf(scene) == Returned.lists[scene.entries]
\* the entries of the first n scenes of the returned document, in order
RECURSIVE EntriesUpTo(_)
EntriesUpTo(n) ==
    IF n = 0 THEN <<>>
    ELSE EntriesUpTo(n - 1) \o EntriesOf(Returned.scenes[n])
\* all entries of the returned document, scene by scene
ReturnedEntries == EntriesUpTo(Len(Returned.scenes))
\* the entries of a sequence that carry a dialogue
DialogueEntries(es) == SelectSeq(es, LAMBDA e : e.dialogue # None)
\* the line the loop has just read
LastRaw == consumed'[Len(consumed')]
LastLine == strip_newline(LastRaw)
\* one iteration of the for loop has run
LineRead == pc = "loop" /\ consumed' # consumed
EndsWithHyphen(s) == s # <<>> /\ s[Len(s)] = HYPHEN
ButLast(s) == SubSeq(s, 1, Len(s) - 1)
IsSuffix(t, s) ==
    Len(t) <= Len(s) /\ SubSeq(s, Len(s) - Len(t) + 1, Len(s)) = t

\* C1: after two successive appends to an empty buffer, when the first line
\* ends with a hyphen the buffer is the first line without its hyphen joined
\* directly to the second line and one space; "exam-" then "ple" gives
\* "example ".
C1_HyphenStitching ==
    /\ appended = <<LExam, LPle>> =>
           getvalue(buffer) = <<"e", "x", "a", "m", "p", "l", "e", SP>>
    /\ (Len(appended) = 2 /\ EndsWithHyphen(strip(appended[1]))) =>
           getvalue(buffer) = ButLast(lower(strip(appended[1])))
                                \o lower(strip(appended[2])) \o <<SP>>

\* the number of lines of a sequence that the loop treats as scene headings
RECURSIVE HeadingCount(_)
HeadingCount(raws) ==
    IF raws = <<>> THEN 0
    ELSE (IF IsHeading(Head(raws)) THEN 1 ELSE 0) + HeadingCount(Tail(raws))

\* C2: the returned document has one scene for the title and one per
\* scene-heading line of the input, also when a heading is followed by no
\* content; a title line and three bare headings give 4 scenes with 1, 0, 0
\* and 0 entries, total_characters = 0 and total_scenes = 4.
C2_OneScenePerHeading ==
    pc # "loop" =>
        /\ Len(Returned.scenes) = 1 + HeadingCount(consumed)
        /\ consumed = <<LDesc, LHeadA, LHeadTabs, LHeadA>> =>
               /\ Len(Returned.scenes) = 4
               /\ Len(EntriesOf(Returned.scenes[1])) = 1
               /\ \A i \in 2..4 : Len(EntriesOf(Returned.scenes[i])) = 0
               /\ Returned.stats.total_characters = 0
               /\ Returned.stats.total_scenes = 4

\* C3: for every input, the empty one included, the returned document has
\* at least one scene and its first scene is named "SCRIPT TITLE".
C3_TitleSceneAlwaysPresent ==
    pc # "loop" =>
        /\ Len(Returned.scenes) >= 1
        /\ Returned.scenes[1].name = <<"SCRIPT TITLE">>

\* C4: when the input ends with a non-empty description buffer, a non-empty
\* dialogue buffer or an active character, the final scene-close runs and the
\* pending description, character and dialogue text are in the last entry of
\* the last scene of the result.
C4_EndOfInputFlush ==
    [][(pc = "loop" /\ pc' = "done"
          /\ (\/ getvalue(parser_state.scene_text) # <<>>
              \/ getvalue(parser_state.dialogue_text) # <<>>
              \/ parser_state.character_name # None))
       => /\ Len(parser_state'.scenes) = Len(parser_state.scenes) + 1
          /\ LET sc == parser_state'.scenes[Len(parser_state'.scenes)]
                 es == parser_state'.lists[sc.entries]
             IN  /\ es # <<>>
                 /\ es[Len(es)].description = getvalue(parser_state.scene_text)
                 /\ (\/ getvalue(parser_state.dialogue_text) # <<>>
                     \/ parser_state.character_name # None) =>
                        /\ es[Len(es)].dialogue # None
                        /\ es[Len(es)].dialogue[1].text
                               = getvalue(parser_state.dialogue_text)
                        /\ Some(es[Len(es)].dialogue[1].character)
                               = parser_state.character_name]_vars

\* C5: total_dialogues of the returned document is the number of entries
\* with a dialogue in the returned scenes.
C5_TotalDialoguesCountsReturnedEntries ==
    pc # "loop" =>
        Returned.stats.total_dialogues = Len(DialogueEntries(ReturnedEntries))

IsStrictlySorted(seq) ==
    \A i \in 1..(Len(seq) - 1) : str_less(seq[i], seq[i + 1])

\* C6: character_vocabulary of the returned document lists, in sorted order
\* and without duplicates, exactly the characters of the dialogues of the
\* returned scenes.
C6_VocabularyIsExactlyTheSpeakers ==
    pc # "loop" =>
        /\ {Returned.character_vocabulary[i] :
                i \in 1..Len(Returned.character_vocabulary)}
             = {ReturnedEntries[i].dialogue[1].character :
                    i \in {j \in 1..Len(ReturnedEntries) :
                              ReturnedEntries[j].dialogue # None}}
        /\ IsStrictlySorted(Returned.character_vocabulary)

\* C7: every dialogue of the returned scenes has its character in
\* character_vocabulary, the export's label lookup does not fail, and the
\* export writes one record per entry with a dialogue, in scene order then
\* entry order, whose label is the index of the character in the sorted
\* vocabulary.
C7_ExportLabelsEveryDialogue ==
    /\ pc # "loop" =>
           /\ \A i \in 1..Len(ReturnedEntries) :
                  ReturnedEntries[i].dialogue # None =>
                      \E j \in 1..Len(Returned.character_vocabulary) :
                          Returned.character_vocabulary[j]
                              = ReturnedEntries[i].dialogue[1].character
           /\ IsStrictlySorted(Returned.character_vocabulary)
    /\ pc = "saved" =>
           LET spoken == DialogueEntries(ReturnedEntries)
           IN  /\ ~key_error
               /\ Len(file) = Len(spoken)
               /\ \A k \in 1..Len(spoken) :
                      /\ file[k].text = spoken[k].dialogue[1].text
                      /\ file[k].label \in
                             0..(Len(Returned.character_vocabulary) - 1)
                      /\ Returned.character_vocabulary[file[k].label + 1]
                             = spoken[k].dialogue[1].character

\* C7 witness: an export of two dialogues whose speakers were met in the
\* reverse of their sorted order.
C7_Witness ==
    /\ pc = "saved"
    /\ Len(file) = 2
    /\ file[1].label = 1
    /\ file[2].label = 0

\* C8: in every returned document total_characters is the size of
\* character_vocabulary and total_scenes is the number of scenes.
C8_StatsMatchVocabularyAndScenes ==
    pc # "loop" =>
        /\ Returned.stats.total_characters = Len(Returned.character_vocabulary)
        /\ Returned.stats.total_scenes = Len(Returned.scenes)

\* C8 witness: a returned document with two characters and two scenes, the
\* last scene added after the loop.
C8_Witness ==
    /\ pc = "done"
    /\ Returned.stats.total_characters = 2
    /\ Returned.stats.total_scenes = 2
    /\ Len(Returned.scenes) = Len(parser_state.scenes)
    /\ HeadingCount(consumed) = 1

\* a line made of one or more digits, a tab and a non-empty remainder
DigitsTabRemainder(line) ==
    \E k \in 1..Len(line) :
        /\ \A i \in 1..k : line[i] \in Digits
        /\ Len(line) >= k + 2
        /\ line[k + 1] = TAB
\* everything after the first tab of line
RemainderAfterFirstTab(line) == SubSeq(line, find_tab(line, 1) + 1, Len(line))

\* C9: a non-empty line closes the current scene and opens a new one exactly
\* when it is digits, a tab and a non-empty remainder, and the new scene is
\* then named by the whole remainder after the first tab.
C9_SceneHeadingRecognition ==
    [][(LineRead /\ LastLine # <<>>)
       => /\ (Len(parser_state'.scenes) = Len(parser_state.scenes) + 1)
                <=> DigitsTabRemainder(LastLine)
          /\ DigitsTabRemainder(LastLine) =>
                parser_state'.scene_name = RemainderAfterFirstTab(LastLine)]_vars

\* C10: a non-heading line with 4 or 5 leading tabs is appended to the
\* dialogue buffer exactly when character_name is not None (a cue was read
\* and its entry not yet closed); otherwise it is appended to the description
\* buffer, and then no entry is created and the vocabulary and the dialogue
\* count do not change.
C10_TabbedLineFollowsActiveCharacter ==
    [][(/\ LineRead
        /\ LastLine # <<>>
        /\ ~IsHeading(LastRaw)
        /\ _count_leading_tabs(LastLine) \in {4, 5})
       => LET content == lower(strip(LastLine)) \o <<SP>>
          IN  IF parser_state.character_name # None
              THEN /\ getvalue(parser_state'.dialogue_text)
                          = getvalue(parser_state.dialogue_text) \o content
                   /\ parser_state'.scene_text = parser_state.scene_text
              ELSE /\ getvalue(parser_state'.scene_text)
                          = getvalue(parser_state.scene_text) \o content
                   /\ parser_state'.dialogue_text = parser_state.dialogue_text
                   /\ parser_state'.lists = parser_state.lists
                   /\ parser_state'.character_vocabulary
                          = parser_state.character_vocabulary
                   /\ parser_state'.stats = parser_state.stats]_vars

\* C10 witness: a 5-tab line read before any cue went to the description
\* buffer, and a 4-tab line read after a blank cue (character_name is the
\* empty string, not None) went to the dialogue buffer.
C10_Witness ==
    /\ pc = "loop"
    /\ consumed = <<LDlg5, LCueBlank, LDlg4>>
    /\ getvalue(parser_state.scene_text) = <<"b", SP, "a", SP>>
    /\ getvalue(parser_state.dialogue_text) = <<"a", "b", HYPHEN, SP>>
    /\ parser_state.character_vocabulary = {}

\* the trimmed cue lines of a sequence of raw lines, grouped by scene: a
\* heading line starts the next group
RECURSIVE CueNamesByScene(_, _)
CueNamesByScene(raws, acc) ==
    IF raws = <<>> THEN acc
    ELSE IF IsHeading(Head(raws))
         THEN CueNamesByScene(Tail(raws), Append(acc, <<>>))
    ELSE IF IsCue(Head(raws))
         THEN CueNamesByScene(Tail(raws),
                  [acc EXCEPT ![Len(acc)] =
                      Append(@, strip(strip_newline(Head(raws))))])
    ELSE CueNamesByScene(Tail(raws), acc)

\* the characters of the dialogues of a sequence of entries, in order
SpeakersOf(es) ==
    LET ds == DialogueEntries(es)
    IN  [k \in 1..Len(ds) |-> ds[k].dialogue[1].character]

\* C11: in every scene the characters of the entries with a dialogue are,
\* in order, the trimmed cue lines (6 leading tabs) read in that scene: one
\* entry with dialogue per cue, the last one for the last cue.
C11_OneDialogueEntryPerCue ==
    pc # "loop" =>
        LET cues == CueNamesByScene(consumed, << <<>> >>)
        IN  \A i \in 1..Len(cues) :
                (IF i <= Len(Returned.scenes)
                 THEN SpeakersOf(EntriesOf(Returned.scenes[i]))
                 ELSE <<>>) = cues[i]

\* the entry list the parser is filling, before and after the step
CurrentEntries == parser_state.lists[parser_state.entries]
\* after the step, the list that was being filled before it
SameListAfter == parser_state'.lists[parser_state.entries]
\* the step appended exactly one entry to the list that was being filled
OneEntryFlushed ==
    /\ Len(SameListAfter) = Len(CurrentEntries) + 1
    /\ SubSeq(SameListAfter, 1, Len(CurrentEntries)) = CurrentEntries
FlushedEntry == SameListAfter[Len(SameListAfter)]

\* C12: a description line read while a character is active first flushes
\* one entry carrying that character, the dialogue buffer and the description
\* accumulated before, sets the character slot to None, and its own text is
\* all the fresh description buffer holds.
C12_DescriptionLineClosesDialogue ==
    [][(/\ LineRead
        /\ LastLine # <<>>
        /\ ~IsHeading(LastRaw)
        /\ _count_leading_tabs(LastLine) \notin {4, 5, 6}
        /\ parser_state.character_name # None)
       => /\ parser_state'.entries = parser_state.entries
          /\ OneEntryFlushed
          /\ FlushedEntry.description = getvalue(parser_state.scene_text)
          /\ FlushedEntry.dialogue =
                 Some([character |-> parser_state.character_name[1],
                       text |-> getvalue(parser_state.dialogue_text)])
          /\ parser_state'.character_name = None
          /\ getvalue(parser_state'.scene_text)
                 = lower(strip(LastLine)) \o <<SP>>]_vars

\* C13: a scene-heading line flushes any pending content (description
\* buffer, dialogue buffer or active character) as one entry of the scene
\* being closed, appends that scene with its name and its entries, and
\* starts the new scene with the new name, empty buffers, an empty entry
\* list of its own and no active character.
C13_SceneBoundary ==
    [][(LineRead /\ IsHeading(LastRaw))
       => /\ IF \/ getvalue(parser_state.scene_text) # <<>>
                \/ getvalue(parser_state.dialogue_text) # <<>>
                \/ parser_state.character_name # None
             THEN /\ OneEntryFlushed
                  /\ FlushedEntry.description = getvalue(parser_state.scene_text)
                  /\ (\/ getvalue(parser_state.dialogue_text) # <<>>
                      \/ parser_state.character_name # None) =>
                         /\ FlushedEntry.dialogue # None
                         /\ FlushedEntry.dialogue[1].text
                                = getvalue(parser_state.dialogue_text)
                         /\ Some(FlushedEntry.dialogue[1].character)
                                = parser_state.character_name
             ELSE SameListAfter = CurrentEntries
          /\ parser_state'.scenes =
                 Append(parser_state.scenes,
                        [name |-> parser_state.scene_name,
                         entries |-> parser_state.entries])
          /\ parser_state'.scene_name = _get_scene_name(LastLine)[1]
          /\ getvalue(parser_state'.scene_text) = <<>>
          /\ getvalue(parser_state'.dialogue_text) = <<>>
          /\ parser_state'.entries # parser_state.entries
          /\ parser_state'.lists[parser_state'.entries] = <<>>
          /\ parser_state'.character_name = None]_vars

\* a sequence of raw lines without those that are empty once the newline is
\* removed
WithoutEmptyLines(raws) == SelectSeq(raws, LAMBDA r : strip_newline(r) # <<>>)

\* C14: reading an empty line changes nothing of the parser state, and the
\* returned document is the one returned for the input with its empty lines
\* removed.
C14_EmptyLinesIgnored ==
    [][/\ (LineRead /\ LastLine = <<>>) => parser_state' = parser_state
       /\ (pc = "loop" /\ pc' = "done") =>
              result' = Some(_parse_text_script(WithoutEmptyLines(consumed)))]_vars

\* C14 witness: a document returned for an input with empty lines before,
\* between and after a cue and its dialogue.
C14_Witness ==
    /\ pc = "done"
    /\ consumed = <<LEmpty, LCueA, LEmpty, LDlg5>>
    /\ Len(Returned.scenes) = 1
    /\ EntriesOf(Returned.scenes[1]) =
           <<[description |-> <<>>,
              dialogue |-> Some([character |-> <<"A">>,
                                 text |-> <<"b", SP, "a", SP>>])]>>

\* the whitespace-token count of the dialogue text of an entry
DialogueWords(e) ==
    IF e.dialogue = None THEN 0 ELSE word_count(e.dialogue[1].text)
\* the sums of the token counts over a sequence of entries
RECURSIVE SumDialogueWords(_)
SumDialogueWords(es) ==
    IF es = <<>> THEN 0 ELSE DialogueWords(Head(es)) + SumDialogueWords(Tail(es))
RECURSIVE SumWords(_)
SumWords(es) ==
    IF es = <<>> THEN 0
    ELSE word_count(Head(es).description) + DialogueWords(Head(es))
             + SumWords(Tail(es))

\* C15: total_words is the number of whitespace-separated tokens of all
\* descriptions and dialogue texts of the returned entries,
\* total_words_in_dialogues that of the dialogue texts alone, and the second
\* is at most the first.
C15_WordCountsMatchReturnedEntries ==
    pc # "loop" =>
        /\ Returned.stats.total_words = SumWords(ReturnedEntries)
        /\ Returned.stats.total_words_in_dialogues
               = SumDialogueWords(ReturnedEntries)
        /\ Returned.stats.total_words_in_dialogues <= Returned.stats.total_words

\* the text a description or dialogue line contributes: its content trimmed,
\* in lower case, followed by one space
LineChunks ==
    {lower(strip(strip_newline(consumed[i]))) \o <<SP>> :
        i \in {j \in 1..Len(consumed) :
                  /\ ~IsEmpty(consumed[j])
                  /\ ~IsHeading(consumed[j])
                  /\ ~IsCue(consumed[j])}}
\* the trimmed texts of the cue lines read, case preserved
CueNames ==
    {strip(strip_newline(consumed[i])) :
        i \in {j \in 1..Len(consumed) : IsCue(consumed[j])}}
\* t is a concatenation of elements of chunks
RECURSIVE MadeOfChunks(_, _)
MadeOfChunks(t, chunks) ==
    \/ t = <<>>
    \/ \E c \in chunks :
           /\ Len(c) <= Len(t)
           /\ SubSeq(t, 1, Len(c)) = c
           /\ MadeOfChunks(SubSeq(t, Len(c) + 1, Len(t)), chunks)

C17_LabelMappingsAreInverse ==
    pc # "loop" =>
        LET v2l == get_vocabulary_to_label_mapping(Returned)
            l2v == get_label_to_vocabulary_mapping(Returned)
            N == Cardinality(parser_state.character_vocabulary)
        IN  /\ DOMAIN v2l = parser_state.character_vocabulary
            /\ DOMAIN l2v = 0..(N - 1)
            /\ \A c \in DOMAIN v2l : v2l[c] \in 0..(N - 1) /\ l2v[v2l[c]] = c
            /\ \A i \in 0..(N - 1) : l2v[i] \in DOMAIN v2l /\ v2l[l2v[i]] = i
            /\ \A i, j \in 0..(N - 1) : i < j => str_less(l2v[i], l2v[j])

\* C17 witness: a returned document with the two characters "A" and "B",
\* of which "B" spoke first.
C17_Witness ==
    /\ pc = "done"
    /\ Len(consumed) >= 2
    /\ consumed[1] = LCueB
    /\ Returned.character_vocabulary = << <<"A">>, <<"B">> >>
    /\ get_vocabulary_to_label_mapping(Returned)[<<"B">>] = 1
    /\ get_label_to_vocabulary_mapping(Returned)[0] = <<"A">>

\* the step appended an entry with a dialogue to the list being filled
DialogueFlushed == OneEntryFlushed /\ FlushedEntry.dialogue # None

\* the document returned for MixedTextScene: one scene of four entries,
\* three with the description read before their cue and the dialogue read
\* after it, then one with a description only
MixedTextSceneResult ==
    (pc = "done" /\ consumed = MixedTextScene) =>
        /\ Len(Returned.scenes) = 1
        /\ EntriesOf(Returned.scenes[1]) =
               [k \in 1..4 |->
                   [description |-> <<"a", SP, "b", SP>>,
                    dialogue |-> IF k <= 3
                                 THEN Some([character |-> <<"A">>,
                                            text |-> <<"a", "b", HYPHEN, SP>>])
                                 ELSE None]]

\* C18: a cue read while character_name is None flushes nothing and leaves
\* the description buffer as it is; the buffer stays untouched while the
\* dialogue is read and is the description of the entry flushed with that
\* dialogue; so description, cue, dialogue three times and a final
\* description give 4 entries, 3 with dialogue and then 1 without.
C18_CueKeepsPendingDescription ==
    [][/\ (/\ consumed' # consumed
           /\ IsCue(LastRaw)
           /\ parser_state.character_name = None)
          => /\ parser_state'.lists = parser_state.lists
             /\ parser_state'.scenes = parser_state.scenes
             /\ parser_state'.stats = parser_state.stats
             /\ parser_state'.scene_text = parser_state.scene_text
             /\ parser_state'.character_name = Some(strip(LastLine))
       /\ (consumed' # consumed /\ IsDialogue(parser_state, LastRaw))
          => /\ parser_state'.scene_text = parser_state.scene_text
             /\ parser_state'.character_name = parser_state.character_name
       /\ DialogueFlushed
          => /\ FlushedEntry.description = getvalue(parser_state.scene_text)
             /\ Some(FlushedEntry.dialogue[1].character)
                    = parser_state.character_name
       /\ MixedTextSceneResult']_vars

\* C18 witness: the four entries returned for MixedTextScene.
C18_Witness ==
    /\ pc = "done"
    /\ consumed = MixedTextScene
    /\ Len(EntriesOf(Returned.scenes[1])) = 4
    /\ Len(DialogueEntries(EntriesOf(Returned.scenes[1]))) = 3
    /\ EntriesOf(Returned.scenes[1])[4].dialogue = None

\* the index of the last cue line of raws, or 0
LastCueIndex(raws) ==
    IF \E i \in 1..Len(raws) : IsCue(raws[i])
    THEN CHOOSE i \in 1..Len(raws) :
             IsCue(raws[i]) /\ \A j \in (i + 1)..Len(raws) : ~IsCue(raws[j])
    ELSE 0
\* the contents of the non-empty lines of raws, each trimmed, lower-cased
\* and followed by one space
RECURSIVE JoinedContents(_)
JoinedContents(raws) ==
    IF raws = <<>> THEN <<>>
    ELSE (IF IsEmpty(Head(raws)) THEN <<>>
          ELSE lower(strip(strip_newline(Head(raws)))) \o <<SP>>)
             \o JoinedContents(Tail(raws))
\* the text of the lines read after the last cue
TextSinceLastCue ==
    JoinedContents(SubSeq(consumed, LastCueIndex(consumed) + 1, Len(consumed)))

\* C19: after every line the dialogue buffer is non-empty only if a
\* non-empty character name is active; the text of a flushed dialogue is
\* exactly the lines read since its own cue, and every flush leaves the
\* dialogue buffer empty.
C19_DialogueBufferBelongsToItsCue ==
    [][/\ getvalue(parser_state'.dialogue_text) # <<>>
          => Truthy(parser_state'.character_name)
       /\ DialogueFlushed
          => FlushedEntry.dialogue[1].text = TextSinceLastCue
       /\ OneEntryFlushed
          => getvalue(parser_state'.dialogue_text) = <<>>]_vars

\* a step keeps every scene already appended, with its name and the
\* contents of its entry list, and no two scenes, nor a scene and the scene
\* still being read, share an entry list
ClosedScenesAreFrozen ==
    /\ \A i \in 1..Len(parser_state.scenes) :
           /\ i <= Len(parser_state'.scenes)
           /\ parser_state'.scenes[i] = parser_state.scenes[i]
           /\ parser_state'.lists[parser_state.scenes[i].entries]
                  = parser_state.lists[parser_state.scenes[i].entries]
    /\ \A i, j \in 1..Len(parser_state'.scenes) :
           i # j => parser_state'.scenes[i].entries
                        # parser_state'.scenes[j].entries
    /\ pc' = "loop" =>
           \A i \in 1..Len(parser_state'.scenes) :
               parser_state'.scenes[i].entries # parser_state'.entries

\* every entry list that received an entry is the list of exactly one
\* returned scene
EveryFlushedEntryInOneScene ==
    \A k \in 1..Len(Returned.lists) :
        Returned.lists[k] # <<>> =>
            Cardinality({i \in 1..Len(Returned.scenes) :
                            Returned.scenes[i].entries = k}) = 1

\* C20: no later line changes the name or the entry list of a scene already
\* appended, a closed scene shares its entry list with no other scene, and
\* every flushed entry belongs to exactly one scene of the result.
C20_ClosedScenesFrozenEntriesOwnedOnce ==
    [][/\ ClosedScenesAreFrozen
       /\ (pc = "loop" /\ pc' = "done") => EveryFlushedEntryInOneScene']_vars

\* an Entry with an empty description and no dialogue
Vacuous(e) == e.description = <<>> /\ e.dialogue = None
\* the number of entries created so far, over all entry lists
RECURSIVE EntryCount(_, _)
EntryCount(lists, k) ==
    IF k = 0 THEN 0 ELSE Len(lists[k]) + EntryCount(lists, k - 1)
\* no entry list of a parser state or of a document holds a vacuous entry
NoVacuousEntry(lists) ==
    \A k \in 1..Len(lists) : \A i \in 1..Len(lists[k]) : ~Vacuous(lists[k][i])
\* the step created an entry
EntryCreated ==
    EntryCount(parser_state'.lists, Len(parser_state'.lists))
        > EntryCount(parser_state.lists, Len(parser_state.lists))

\* C21: no entry ever created, and no entry of any scene of the returned
\* document, has both an empty description string and no dialogue; a step
\* creates an entry only when, before it, a character name is set and
\* non-empty or the description buffer is non-empty.
C21_NoVacuousEntry ==
    [][/\ NoVacuousEntry(parser_state'.lists)
       /\ pc' = "done" =>
              \A i \in 1..Len(Returned'.scenes) :
                  \A j \in 1..Len(Returned'.lists[Returned'.scenes[i].entries]) :
                      ~Vacuous(Returned'.lists[Returned'.scenes[i].entries][j])
       /\ EntryCreated =>
              \/ Truthy(parser_state.character_name)
              \/ getvalue(parser_state.scene_text) # <<>>]_vars

\* a returned document holding an entry with a dialogue and an empty
\* description, and an entry with no dialogue whose description is the one
\* space written for a whitespace-only line
C21_Witness ==
    /\ pc = "done"
    /\ \E i \in 1..Len(ReturnedEntries) :
           /\ ReturnedEntries[i].description = <<>>
           /\ ReturnedEntries[i].dialogue # None
    /\ \E i \in 1..Len(ReturnedEntries) :
           /\ ReturnedEntries[i].description = <<SP>>
           /\ ReturnedEntries[i].dialogue = None

====
